---- MODULE Spec2Model ----
(***************************************************************************)
(* acyclomatic.c: conversion of an infix arithmetical expression into its  *)
(* postfix form by a chain of handlers selected through a call table.      *)
(*                                                                         *)
(* Characters are modelled by their (signed 8-bit) codes.  A walk is one   *)
(* call of convert from main: every action is one handler together with    *)
(* the classification in convert that dispatched to it.                    *)
(***************************************************************************)
EXTENDS Integers, Sequences, FiniteSets, TLC

(***************************************************************************)
(* Character codes used by the program.                                    *)
(***************************************************************************)
NUL == 0
NEWLINE == 10
OPEN == 40
CLOSE == 41
STAR == 42
PLUS == 43
MINUS == 45
SLASH == 47
LOWER_A == 97
LOWER_Z == 122
CHAR_MIN == -128
CHAR_MAX == 127

ASCII_MAX == 127
HANDLE_ERROR == 0
HANDLE_END == 1
HANDLE_SYMBOL == 2
HANDLE_ADD_SUB == 3
HANDLE_MUL_DIV == 4
HANDLE_OPEN_BRKT == 5
HANDLE_CLOSE_BRKT == 6
MAX_STACK_DEPTH == 64
INT_BITS == 32
INT_MAX == 2147483647

CharValues == CHAR_MIN..CHAR_MAX

\* The text handle_error prints: "\nError in the expression\n".
ErrorMsg ==
  <<10, 69, 114, 114, 111, 114, 32, 105, 110, 32, 116, 104, 101, 32,
    101, 120, 112, 114, 101, 115, 115, 105, 111, 110, 10>>

(***************************************************************************)
(* check_interval: the sign-bit arithmetic of the source on 32-bit two's   *)
(* complement integers.  An int is split into its sign bit and its 31 low  *)
(* bits; | is computed bit by bit.                                         *)
(***************************************************************************)
SignBit(x) == IF x < 0 THEN 1 ELSE 0

\* The 31 low bits of the two's complement form of x (x + 2^31 when x < 0).
LowBits(x) == IF x < 0 THEN (x + INT_MAX) + 1 ELSE x

\* a | b on n-bit naturals, bit by bit from the lowest; the bits left are
\* those of the other operand once one operand is 0 or both are equal.
RECURSIVE OrBits(_, _, _)
OrBits(a, b, n) ==
  IF n = 0 THEN 0
  ELSE IF a = 0 THEN b
  ELSE IF b = 0 \/ a = b THEN a
  ELSE LET bit == IF (a % 2) + (b % 2) > 0 THEN 1 ELSE 0
       IN  bit + 2 * OrBits(a \div 2, b \div 2, n - 1)

\* x | y on 32-bit ints, as the record of the sign bit and the low bits.
BitOr(x, y) ==
  [sign |-> IF SignBit(x) + SignBit(y) > 0 THEN 1 ELSE 0,
   low  |-> OrBits(LowBits(x), LowBits(y), INT_BITS - 1)]

\* The int a sign bit and 31 low bits stand for.
IntOf(v) == IF v.sign = 1 THEN (v.low - INT_MAX) - 1 ELSE v.low

\* v >> (sizeof(int) * 8 - 1), the arithmetic shift of the compilers the
\* program is built with: every bit becomes the sign bit.
ShiftToSign(v) == IF v.sign = 1 THEN -1 ELSE 0

\* ~s & 1
InvertedLowBit(s) == ((-s - 1) % 2)

\* Mutant: the lower bound is not tested.
check_interval_upper(value, low, high) ==
  InvertedLowBit(ShiftToSign(BitOr(high - value, 0)))

check_interval(value, low, high) ==
  InvertedLowBit(ShiftToSign(BitOr(high - value, value - low)))

(***************************************************************************)
(* convert: the sum of the eight interval checks, and the call table.      *)
(***************************************************************************)
IntervalChecks(c) ==
  <<check_interval(c, NUL, NUL) * HANDLE_END,
    check_interval(c, LOWER_A, LOWER_Z) * HANDLE_SYMBOL,
    check_interval(c, PLUS, PLUS) * HANDLE_ADD_SUB,
    check_interval(c, MINUS, MINUS) * HANDLE_ADD_SUB,
    check_interval(c, STAR, STAR) * HANDLE_MUL_DIV,
    check_interval(c, SLASH, SLASH) * HANDLE_MUL_DIV,
    check_interval(c, OPEN, OPEN) * HANDLE_OPEN_BRKT,
    check_interval(c, CLOSE, CLOSE) * HANDLE_CLOSE_BRKT>>

RECURSIVE SumSeq(_)
SumSeq(s) == IF s = <<>> THEN 0 ELSE Head(s) + SumSeq(Tail(s))

convert_index(c) == SumSeq(IntervalChecks(c))

call_table ==
  [i \in 0..6 |->
     CASE i = HANDLE_ERROR      -> "handle_error"
       [] i = HANDLE_END        -> "handle_end"
       [] i = HANDLE_SYMBOL     -> "handle_symbol"
       [] i = HANDLE_ADD_SUB    -> "handle_add_sub"
       [] i = HANDLE_MUL_DIV    -> "handle_mul_div"
       [] i = HANDLE_OPEN_BRKT  -> "handle_open_bracket"
       [] i = HANDLE_CLOSE_BRKT -> "handle_close_bracket"]

print_call_table == [i \in 0..1 |-> IF i = 0 THEN "print_nothing" ELSE "print_char"]

(***************************************************************************)
(* Memory.  The stack is the malloc'ed buffer of MAX_STACK_DEPTH bytes,    *)
(* stack_top an index relative to stack_bottom.  A byte that was never     *)
(* written holds Uninit; bytes outside the buffer that the walk touched    *)
(* are kept in `outside`.  A read of a byte never written yields any of    *)
(* GarbageBytes (one value for each way the routines and the output tell   *)
(* bytes apart: 0, a multiplicative operator, a printable byte that is no  *)
(* character of an expression, a negative byte) and                        *)
(* the byte keeps that value.  A write outside the buffer either lands or  *)
(* ends the process.  The walk is followed as long as the stack top is at  *)
(* most MaxUnderflow bytes below the buffer.                               *)
(***************************************************************************)
MaxUnderflow == 1

Uninit == CHAR_MAX + 1

GarbageBytes == {NUL, STAR, 81, -1}

InBuf(i) == 0 <= i /\ i < MAX_STACK_DEPTH

Cell(m, i) ==
  IF InBuf(i) THEN m.stack[i]
  ELSE IF i \in DOMAIN m.outside THEN m.outside[i] ELSE Uninit

Store(m, i, v) ==
  IF InBuf(i) THEN [m EXCEPT !.stack[i] = v]
  ELSE [m EXCEPT !.outside =
          [j \in (DOMAIN m.outside) \cup {i} |-> IF j = i THEN v ELSE m.outside[j]]]

\* The values a read of the top byte can yield.
ReadChoices(m) ==
  IF Cell(m, m.top) = Uninit THEN GarbageBytes ELSE {Cell(m, m.top)}

\* Whether the write of a push is one inside the buffer (it lands) or not
\* (it lands or the process ends).
WriteOutcomes(m) == IF InBuf(m.top + 1) THEN {TRUE} ELSE {TRUE, FALSE}

(***************************************************************************)
(* The stack and print routines.  c is the byte the routine reads at the   *)
(* top (one of ReadChoices).                                               *)
(***************************************************************************)
\* v ^ 1 for v in {0, 1}
Xor1(v) == (v + 1) % 2

print_symbol(m, c) ==
  LET index == check_interval(c, 1, ASCII_MAX)
  IN  IF print_call_table[index] = "print_char"
      THEN [m EXCEPT !.out = Append(@, c)]
      ELSE m

\* Mutant: the byte is written at the top without the top being raised.
push_overwrite(m, c, lands) ==
  IF lands THEN Store(m, m.top, c) ELSE [m EXCEPT !.crashed = TRUE]

push(m, c, lands) ==
  LET m1 == [m EXCEPT !.top = @ + 1]
  IN  IF lands THEN Store(m1, m1.top, c) ELSE [m1 EXCEPT !.crashed = TRUE]

\* Mutant: a sentinel is popped like an operator.
pop_through(m, c) ==
  LET m1 == Store(m, m.top, c)
  IN  [m |-> [m1 EXCEPT !.top = @ - 1], c |-> c]

\* Mutant: the top is returned and left on the stack.
pop_peek(m, c) == [m |-> Store(m, m.top, c), c |-> c]

pop(m, c) ==
  LET m1 == Store(m, m.top, c)
  IN  [m |-> [m1 EXCEPT !.top = @ - Xor1(check_interval(c, 0, 0))], c |-> c]

\* Mutant: any operator is popped, not only * and /.
pop_mul_div_any(m, c) ==
  LET m1   == Store(m, m.top, c)
      cond == Xor1(check_interval(c, 0, 0))
  IN  [m |-> [m1 EXCEPT !.top = @ - cond], c |-> c * cond]

pop_mul_div(m, c) ==
  LET m1   == Store(m, m.top, c)
      cond == IntOf(BitOr(check_interval(c, STAR, STAR),
                          check_interval(c, SLASH, SLASH)))
  IN  [m |-> [m1 EXCEPT !.top = @ - cond], c |-> c * cond]

\* Mutant: the delimiter is left on the stack.
pop0_keep(m, c) == Store(m, m.top, c)

pop0(m, c) ==
  [Store(m, m.top, c) EXCEPT !.top = @ - check_interval(c, 0, 0)]

(***************************************************************************)
(* The inputs: argv[argc - 1], a character string ending in NUL.           *)
(*   - every string of at most MaxLen characters over Alphabet (an         *)
(*     operand, an operator of either kind, the brackets, one invalid      *)
(*     character);                                                         *)
(*   - every well-formed expression of at most MaxOperands operands and    *)
(*     bracket pairs together (2 * MaxOperands - 1 characters), its        *)
(*     operands being a, b, c, ... from left to right;                     *)
(*   - every one-character string, over all values of a char;              *)
(*   - the example of the file header and the scenarios of the             *)
(*     specification;                                                      *)
(*   - up to MaxNest open brackets;                                        *)
(*   - up to MaxDeep times +*( , each leaving three entries on the stack,  *)
(*     followed by +* .                                                    *)
(***************************************************************************)
MaxLen == 4
MaxOperands == 4
MaxNest == 64
MaxDeep == 21

Letters == LOWER_A..LOWER_Z
AddOps == {PLUS, MINUS}
MulOps == {STAR, SLASH}
Operators == AddOps \cup MulOps
Alphabet == {LOWER_A, PLUS, STAR, OPEN, CLOSE, 36}

RECURSIVE StringsOfLen(_)
StringsOfLen(n) ==
  IF n = 0 THEN {<<>>}
  ELSE {Append(s, c) : s \in StringsOfLen(n - 1), c \in Alphabet}

AllStrings == UNION {StringsOfLen(n) : n \in 0..MaxLen}

\* Prefixes of well-formed expressions, each with what the grammar expects
\* next (an operand or an operator), its number of open brackets and its
\* number of operands.
ExtendPrefix(p, left) ==
  IF p.operand
  THEN {[p EXCEPT !.s = Append(@, LOWER_A + p.n), !.operand = FALSE, !.n = @ + 1]}
       \cup (IF p.depth + 2 <= left
             THEN {[p EXCEPT !.s = Append(@, OPEN), !.depth = @ + 1]}
             ELSE {})
  ELSE (IF p.depth + 2 <= left
        THEN {[p EXCEPT !.s = Append(@, c), !.operand = TRUE] : c \in Operators}
        ELSE {})
       \cup (IF p.depth > 0
             THEN {[p EXCEPT !.s = Append(@, CLOSE), !.depth = @ - 1]}
             ELSE {})

RECURSIVE PrefixesOfLen(_, _)
PrefixesOfLen(n, max) ==
  IF n = 0 THEN {[s |-> <<>>, operand |-> TRUE, depth |-> 0, n |-> 0]}
  ELSE UNION {ExtendPrefix(p, max - (n - 1)) : p \in PrefixesOfLen(n - 1, max)}

WellFormedOfLen(n) ==
  {p.s : p \in {q \in PrefixesOfLen(n, n) : ~q.operand /\ q.depth = 0}}

WellFormedExprs == UNION {WellFormedOfLen(2 * k - 1) : k \in 1..MaxOperands}

OneCharStrings == {<<c>> : c \in CharValues \ {NUL}}

\* a+(b+c*d)*e+f/g+h
Example ==
  <<97, PLUS, OPEN, 98, PLUS, 99, STAR, 100, CLOSE, STAR, 101, PLUS, 102,
    SLASH, 103, PLUS, 104>>

\* a  a+b  a+b*c  (a+b)*c  a$b  (a+b  a+b)
Scenarios ==
  {<<97>>, <<97, PLUS, 98>>, <<97, PLUS, 98, STAR, 99>>,
   <<OPEN, 97, PLUS, 98, CLOSE, STAR, 99>>, <<97, 36, 98>>,
   <<OPEN, 97, PLUS, 98>>, <<97, PLUS, 98, CLOSE>>}

NestUnits == {<<OPEN>>}

RECURSIVE Repeat(_, _)
Repeat(u, n) == IF n = 0 THEN <<>> ELSE u \o Repeat(u, n - 1)

Nested == {Repeat(u, n) : u \in NestUnits, n \in 1..MaxNest}

DeepUnit == <<PLUS, STAR, OPEN>>

Deep == {Repeat(DeepUnit, n) \o <<PLUS, STAR>> : n \in 1..MaxDeep}

Inputs ==
  {s \o <<NUL>> :
     s \in AllStrings \cup WellFormedExprs \cup OneCharStrings \cup {Example}
             \cup Scenarios \cup Nested \cup Deep}

(***************************************************************************)
(* State.  str and pos are the string and the char* walking it; stack,     *)
(* outside and stack_top the operator stack; call_index the static of      *)
(* convert; out what convert and its handlers have written to stdout; pc   *)
(* where the process is: in convert, about to call call_table[call_index]  *)
(* ("call"), returned from handle_end ("done") or from handle_error        *)
(* ("error"), or ended by a write outside the buffer ("crashed").          *)
(* hist is a history variable: for every position handled so far, the      *)
(* handler called, the position, and the length of out, the stack top and  *)
(* the stack up to its top before the handler ran.                         *)
(* other holds what is private to a second call of convert while it does   *)
(* not run (its str, pos, out, pc and hist); the program itself makes one  *)
(* call only, and other is then NoConversion.                              *)
(***************************************************************************)
VARIABLES str, pos, stack, outside, stack_top, call_index, out, pc, hist, other

vars == <<str, pos, stack, outside, stack_top, call_index, out, pc, hist, other>>

NoConversion ==
  [str |-> <<NUL>>, pos |-> 1, out |-> <<>>, pc |-> "none", hist |-> <<>>]

\* main up to its call of convert, and convert up to its call of the handler
Init ==
  /\ str \in Inputs
  /\ pos = 1
  /\ stack = [i \in 0..(MAX_STACK_DEPTH - 1) |-> IF i = 0 THEN 0 ELSE Uninit]
  /\ outside = <<>>
  /\ stack_top = 0
  /\ call_index = convert_index(str[1])
  /\ out = <<>>
  /\ pc = "call"
  /\ hist = <<>>
  /\ other = NoConversion

Machine == [stack |-> stack, outside |-> outside, top |-> stack_top, out |-> out,
            crashed |-> FALSE]

\* The stack from its bottom to its top.
Live == [i \in 0..stack_top |-> Cell(Machine, i)]

\* convert calls call_table[call_index], which is the handler of that name.
Dispatch(handler) ==
  /\ pc = "call"
  /\ call_index \in DOMAIN call_table
  /\ call_table[call_index] = handler
  /\ hist' = Append(hist, [handler |-> handler, pos |-> pos, outlen |-> Len(out),
                           top |-> stack_top, live |-> Live])
  /\ other' = other

\* The handler leaves the memory and the output as in m.
Leave(m) ==
  /\ m.top >= -MaxUnderflow
  /\ stack' = m.stack
  /\ outside' = m.outside
  /\ stack_top' = m.top
  /\ out' = m.out

\* The handler returns without calling convert.
Return(to) ==
  /\ pc' = to
  /\ UNCHANGED <<str, pos, call_index>>

\* convert(++str) up to its call of the next handler, or the end of the
\* process when a write has ended it
Continue(m) ==
  /\ Leave(m)
  /\ IF m.crashed
     THEN pc' = "crashed" /\ UNCHANGED <<str, pos, call_index>>
     ELSE /\ pc' = "call"
          /\ pos' = pos + 1
          /\ call_index' = convert_index(str[pos + 1])
          /\ str' = str

\* Mutant: the pending operators are written before the message.
handle_error_flush ==
  /\ Dispatch("handle_error")
  /\ \E c1 \in ReadChoices(Machine) :
       LET r1 == pop(Machine, c1)
           m1 == print_symbol(r1.m, r1.c)
       IN  \E c2 \in ReadChoices(m1) :
             LET r2 == pop(m1, c2)
                 m2 == print_symbol(r2.m, r2.c)
             IN  Leave([m2 EXCEPT !.out = @ \o ErrorMsg])
  /\ Return("error")

handle_error ==
  /\ Dispatch("handle_error")
  /\ Leave([Machine EXCEPT !.out = @ \o ErrorMsg])
  /\ Return("error")

\* Mutant: only one pending operator is written at the end.
handle_end_single ==
  /\ Dispatch("handle_end")
  /\ \E c1 \in ReadChoices(Machine) :
       LET r1 == pop(Machine, c1)
           m1 == print_symbol(r1.m, r1.c)
       IN  Leave([m1 EXCEPT !.out = Append(@, NEWLINE)])
  /\ Return("done")

handle_end ==
  /\ Dispatch("handle_end")
  /\ \E c1 \in ReadChoices(Machine) :
       LET r1 == pop(Machine, c1)
           m1 == print_symbol(r1.m, r1.c)
       IN  \E c2 \in ReadChoices(m1) :
             LET r2 == pop(m1, c2)
                 m2 == print_symbol(r2.m, r2.c)
             IN  Leave([m2 EXCEPT !.out = Append(@, NEWLINE)])
  /\ Return("done")

\* Mutant: the pointer is advanced before the symbol is written.
handle_symbol_late ==
  /\ Dispatch("handle_symbol")
  /\ Continue([Machine EXCEPT !.out = Append(@, str[pos + 1])])

handle_symbol ==
  /\ Dispatch("handle_symbol")
  /\ Continue([Machine EXCEPT !.out = Append(@, str[pos])])

\* Mutant: the operator is pushed without the pending ones being written.
handle_add_sub_noflush ==
  /\ Dispatch("handle_add_sub")
  /\ \E lands \in WriteOutcomes(Machine) :
       Continue(push(Machine, str[pos], lands))

handle_add_sub ==
  /\ Dispatch("handle_add_sub")
  /\ \E c1 \in ReadChoices(Machine) :
       LET r1 == pop(Machine, c1)
           m1 == print_symbol(r1.m, r1.c)
       IN  \E c2 \in ReadChoices(m1) :
             LET r2 == pop(m1, c2)
                 m2 == print_symbol(r2.m, r2.c)
             IN  \E lands \in WriteOutcomes(m2) :
                   Continue(push(m2, str[pos], lands))

\* Mutant: the operator is pushed without a pending product being written.
handle_mul_div_noflush ==
  /\ Dispatch("handle_mul_div")
  /\ \E lands \in WriteOutcomes(Machine) :
       Continue(push(Machine, str[pos], lands))

handle_mul_div ==
  /\ Dispatch("handle_mul_div")
  /\ \E c1 \in ReadChoices(Machine) :
       LET r1 == pop_mul_div(Machine, c1)
           m1 == print_symbol(r1.m, r1.c)
       IN  \E lands \in WriteOutcomes(m1) :
             Continue(push(m1, str[pos], lands))

handle_open_bracket ==
  /\ Dispatch("handle_open_bracket")
  /\ \E lands \in WriteOutcomes(Machine) :
       Continue(push(Machine, 0, lands))

\* Mutant: only one pending operator is written.
handle_close_bracket_single ==
  /\ Dispatch("handle_close_bracket")
  /\ \E c1 \in ReadChoices(Machine) :
       LET r1 == pop(Machine, c1)
           m1 == print_symbol(r1.m, r1.c)
       IN  \E c3 \in ReadChoices(m1) :
             Continue(pop0(m1, c3))

handle_close_bracket ==
  /\ Dispatch("handle_close_bracket")
  /\ \E c1 \in ReadChoices(Machine) :
       LET r1 == pop(Machine, c1)
           m1 == print_symbol(r1.m, r1.c)
       IN  \E c2 \in ReadChoices(m1) :
             LET r2 == pop(m1, c2)
                 m2 == print_symbol(r2.m, r2.c)
             IN  \E c3 \in ReadChoices(m2) :
                   Continue(pop0(m2, c3))

Next ==
  \/ handle_error
  \/ handle_end
  \/ handle_symbol
  \/ handle_add_sub
  \/ handle_mul_div
  \/ handle_open_bracket
  \/ handle_close_bracket

Spec == Init /\ [][Next]_vars

(***************************************************************************)
(* Two calls of convert in one process, on the one stack that stack_bottom *)
(* and stack_top name.  The calls take turns between handlers: switch      *)
(* suspends the running call at its entry to convert and resumes the       *)
(* other one there, which classifies its own character again; the stack    *)
(* and its top stay as the suspended call left them.                       *)
(***************************************************************************)
InputsTwo == {s \o <<NUL>> : s \in Scenarios}

InitTwo ==
  /\ str \in InputsTwo
  /\ pos = 1
  /\ stack = [i \in 0..(MAX_STACK_DEPTH - 1) |-> IF i = 0 THEN 0 ELSE Uninit]
  /\ outside = <<>>
  /\ stack_top = 0
  /\ call_index = convert_index(str[1])
  /\ out = <<>>
  /\ pc = "call"
  /\ hist = <<>>
  /\ other \in {[NoConversion EXCEPT !.str = s, !.pc = "call"] : s \in InputsTwo}

switch ==
  /\ pc # "crashed"
  /\ other.pc = "call"
  /\ str' = other.str
  /\ pos' = other.pos
  /\ out' = other.out
  /\ pc' = other.pc
  /\ hist' = other.hist
  /\ other' = [str |-> str, pos |-> pos, out |-> out, pc |-> pc, hist |-> hist]
  /\ call_index' = convert_index(other.str[other.pos])
  /\ UNCHANGED <<stack, outside, stack_top>>

NextTwo ==
  \/ handle_error
  \/ handle_end
  \/ handle_symbol
  \/ handle_add_sub
  \/ handle_mul_div
  \/ handle_open_bracket
  \/ handle_close_bracket
  \/ switch

SpecTwo == InitTwo /\ [][NextTwo]_vars

(***************************************************************************)
(* Notions the properties are stated with.                                 *)
(***************************************************************************)
\* The expression: str without its terminator.
Body == SubSeq(str, 1, Len(str) - 1)

\* The characters handled so far.
Handled == SubSeq(str, 1, Len(hist))

Terminated == pc \in {"done", "error", "crashed"}

Recognised == Letters \cup Operators \cup {OPEN, CLOSE}

OnlyRecognised(s) == \A i \in 1..Len(s) : s[i] \in Recognised

LettersOf(s) == SelectSeq(s, LAMBDA c : c \in Letters)

OperatorsOf(s) == SelectSeq(s, LAMBDA c : c \in Operators)

BracketFree(s) == \A i \in 1..Len(s) : s[i] \notin {OPEN, CLOSE}

\* Open brackets less close brackets in the first i characters of s.
RECURSIVE DepthAt(_, _)
DepthAt(s, i) ==
  IF i = 0 THEN 0
  ELSE DepthAt(s, i - 1) + (IF s[i] = OPEN THEN 1 ELSE IF s[i] = CLOSE THEN -1 ELSE 0)

NoUnmatchedClose(s) == \A i \in 1..Len(s) : DepthAt(s, i) >= 0

Balanced(s) == NoUnmatchedClose(s) /\ DepthAt(s, Len(s)) = 0

\* The grammar  E ::= letter | E operator E | ( E ).
RECURSIVE WellFormedFrom(_, _, _, _)
WellFormedFrom(s, i, operand, depth) ==
  IF i > Len(s) THEN ~operand /\ depth = 0
  ELSE IF operand
       THEN \/ s[i] \in Letters /\ WellFormedFrom(s, i + 1, FALSE, depth)
            \/ s[i] = OPEN /\ WellFormedFrom(s, i + 1, TRUE, depth + 1)
       ELSE \/ s[i] \in Operators /\ WellFormedFrom(s, i + 1, TRUE, depth)
            \/ s[i] = CLOSE /\ depth > 0 /\ WellFormedFrom(s, i + 1, FALSE, depth - 1)

IsWellFormed(s) == WellFormedFrom(s, 1, TRUE, 0)

\* The position of the open bracket matching the close bracket at q.
RECURSIVE MatchFrom(_, _, _)
MatchFrom(s, i, open) ==
  LET left == open + (IF s[i] = CLOSE THEN 1 ELSE IF s[i] = OPEN THEN -1 ELSE 0)
  IN  IF left = 0 THEN i ELSE MatchFrom(s, i - 1, left)

MatchOf(s, q) == MatchFrom(s, q, 0)

(***************************************************************************)
(* The reference conversion: a recursive descent over                      *)
(*   expr ::= term {additive term}   term ::= factor {multiplicative factor} *)
(*   factor ::= letter | ( expr )                                          *)
(* on a well-formed expression followed by NUL.  Each parser gives the     *)
(* postfix form of what it read and the position after it.                 *)
(***************************************************************************)
RECURSIVE ParseExpr(_, _), ParseTerm(_, _), ParseFactor(_, _),
          ExprRest(_, _, _), TermRest(_, _, _)

ParseFactor(s, i) ==
  IF s[i] = OPEN
  THEN LET e == ParseExpr(s, i + 1) IN [out |-> e.out, next |-> e.next + 1]
  ELSE [out |-> <<s[i]>>, next |-> i + 1]

TermRest(s, acc, i) ==
  IF s[i] \in MulOps
  THEN LET f == ParseFactor(s, i + 1)
       IN  TermRest(s, acc \o f.out \o <<s[i]>>, f.next)
  ELSE [out |-> acc, next |-> i]

ParseTerm(s, i) ==
  LET f == ParseFactor(s, i) IN TermRest(s, f.out, f.next)

ExprRest(s, acc, i) ==
  IF s[i] \in AddOps
  THEN LET t == ParseTerm(s, i + 1)
       IN  ExprRest(s, acc \o t.out \o <<s[i]>>, t.next)
  ELSE [out |-> acc, next |-> i]

ParseExpr(s, i) ==
  LET t == ParseTerm(s, i) IN ExprRest(s, t.out, t.next)

Postfix(s) == ParseExpr(s \o <<NUL>>, 1).out

\* abcd*+e*+fg/+h+
ExamplePostfix ==
  <<97, 98, 99, 100, STAR, PLUS, 101, STAR, PLUS, 102, 103, SLASH, PLUS, 104, PLUS>>

(***************************************************************************)
(* C1: a well-formed infix expression is walked to the end, and what is    *)
(* written before the trailing newline is the postfix form the reference   *)
(* conversion gives (multiplicative operators bind tighter than additive   *)
(* ones, all four are left-associative, brackets group); the example of    *)
(* the file header gives ExamplePostfix.                                   *)
(***************************************************************************)
C1_PostfixOfWellFormed ==
  IsWellFormed(Body) =>
    /\ pc \in {"call", "done"}
    /\ pc = "done" => out = Postfix(Body) \o <<NEWLINE>>
    /\ (pc = "done" /\ Body = Example) => out = ExamplePostfix \o <<NEWLINE>>

C1_Witness ==
  pc = "done" /\ Body = Example /\ out = ExamplePostfix \o <<NEWLINE>>

(***************************************************************************)
(* C2: for an input of operands, operators and balanced brackets, at every *)
(* step of the walk the operands written so far are exactly the operands   *)
(* of the characters handled so far, in the same order and number.         *)
(***************************************************************************)
C2_OperandOrder ==
  (OnlyRecognised(Body) /\ Balanced(Body)) =>
    LettersOf(out) = LettersOf(Handled)

C2_Witness ==
  /\ pc = "done"
  /\ Balanced(Body)
  /\ ~BracketFree(Body)
  /\ Len(LettersOf(Body)) >= 3
  /\ LettersOf(out) = LettersOf(Body)

(***************************************************************************)
(* Bracket-free well-formed expressions: operand k is character 2k - 1,    *)
(* operator k character 2k.                                                *)
(***************************************************************************)
IsBracketFreeExpr(s) == BracketFree(s) /\ IsWellFormed(s)

NumOperands(s) == (Len(s) + 1) \div 2

\* The index in o of its k-th operand letter.
RECURSIVE LetterIndexFrom(_, _, _)
LetterIndexFrom(o, k, i) ==
  IF o[i] \in Letters
  THEN IF k = 1 THEN i ELSE LetterIndexFrom(o, k - 1, i + 1)
  ELSE LetterIndexFrom(o, k, i + 1)

LetterIndex(o, k) == LetterIndexFrom(o, k, 1)

\* The last operand of the product that starts at operand k.
RECURSIVE ProductEnd(_, _)
ProductEnd(s, k) ==
  IF k < NumOperands(s) /\ s[2 * k] \in MulOps THEN ProductEnd(s, k + 1) ELSE k

(***************************************************************************)
(* C3: in the output of a bracket-free expression every multiplicative     *)
(* operator stands directly after the operand that follows it in the       *)
(* input, and an additive operator stands after the whole product that     *)
(* follows it in the input: directly after that product's last operand,    *)
(* or after the multiplicative operator behind that operand.               *)
(***************************************************************************)
C3_Precedence ==
  (pc = "done" /\ IsBracketFreeExpr(Body)) =>
    \A k \in 1..(NumOperands(Body) - 1) :
      LET op == Body[2 * k]
          m  == ProductEnd(Body, k + 1)
      IN  IF op \in MulOps
          THEN out[LetterIndex(out, k + 1) + 1] = op
          ELSE out[LetterIndex(out, m) + (IF m > k + 1 THEN 2 ELSE 1)] = op

\* a+b*c gives abc*+
C3_Witness ==
  /\ pc = "done"
  /\ Body = <<97, PLUS, 98, STAR, 99>>
  /\ out = <<97, 98, 99, STAR, PLUS, NEWLINE>>

(***************************************************************************)
(* C4: in a bracket-free chain of additive operators only, or of           *)
(* multiplicative operators only, each operator is written before the next *)
(* one is pushed: during the walk the operators written are all operators  *)
(* handled but the last, which alone is on the stack, and the output is    *)
(* x1 x2 o1 x3 o2 ... xn o(n-1).                                           *)
(***************************************************************************)
IsChain(s) ==
  /\ IsBracketFreeExpr(s)
  /\ \/ \A k \in 1..(NumOperands(s) - 1) : s[2 * k] \in AddOps
     \/ \A k \in 1..(NumOperands(s) - 1) : s[2 * k] \in MulOps

ChainPostfix(s) ==
  [i \in 1..Len(s) |-> IF i = 1 THEN s[1]
                       ELSE IF i % 2 = 0 THEN s[i + 1] ELSE s[i - 1]]

AllButLast(s) == IF s = <<>> THEN <<>> ELSE SubSeq(s, 1, Len(s) - 1)

C4_Associativity ==
  IsChain(Body) =>
    /\ pc = "done" => out = ChainPostfix(Body) \o <<NEWLINE>>
    /\ pc = "call" =>
         LET ops == OperatorsOf(Handled)
         IN  /\ OperatorsOf(out) = AllButLast(ops)
             /\ stack_top = Len(ops) - Len(AllButLast(ops))
             /\ ops # <<>> => stack[1] = ops[Len(ops)]

\* a/b/c gives ab/c/
C4_Witness ==
  /\ pc = "done"
  /\ Body = <<97, SLASH, 98, SLASH, 99>>
  /\ out = <<97, 98, SLASH, 99, SLASH, NEWLINE>>

(***************************************************************************)
(* C5: in a well-formed expression, when the handler of a close bracket    *)
(* has finished, what was written since the handler of the matching open   *)
(* bracket was called is exactly the postfix form of the expression        *)
(* between the two brackets (every operator between them is written, no    *)
(* operator from outside them is), and the operators that were pending     *)
(* when the open bracket was handled are pending still.                    *)
(***************************************************************************)
JustClosed == pc = "call" /\ hist # <<>> /\ str[Len(hist)] = CLOSE

C5_BracketLaw ==
  (IsWellFormed(Body) /\ JustClosed) =>
    LET q == Len(hist)
        m == MatchOf(str, q)
    IN  /\ SubSeq(out, hist[m].outlen + 1, Len(out))
             = Postfix(SubSeq(str, m + 1, q - 1))
        /\ stack_top = hist[m].top

\* a*(b+c) with * pending, b c + written inside the brackets
C5_Witness ==
  /\ JustClosed
  /\ Handled = <<97, STAR, OPEN, 98, PLUS, 99, CLOSE>>
  /\ out = <<97, 98, 99, PLUS>>
  /\ stack_top = 1 /\ stack[1] = STAR

(***************************************************************************)
(* C6: handle_error is called for the first character that is neither      *)
(* recognised nor the terminator; after it the walk has ended, no later    *)
(* character was handled, the stack is as it was, and the output is what   *)
(* was written for the characters before it followed by the error message  *)
(* (for a$b: a, then the message).                                         *)
(***************************************************************************)
C6_InvalidAborts ==
  /\ (pc = "call" /\ str[pos] \notin Recognised \cup {NUL}) =>
       call_table[call_index] = "handle_error"
  /\ pc = "error" =>
       /\ str[pos] \notin Recognised \cup {NUL}
       /\ \A i \in 1..(pos - 1) : str[i] \in Recognised
       /\ Len(hist) = pos
       /\ SubSeq(out, hist[pos].outlen + 1, Len(out)) = ErrorMsg
       /\ stack_top = hist[pos].top
       /\ ~ENABLED Next
       /\ Body = <<97, 36, 98>> => out = <<97>> \o ErrorMsg

\* a+$ : the pending + stays on the stack
C6_Witness ==
  /\ pc = "error"
  /\ SubSeq(str, 1, pos) = <<97, PLUS, 36>>
  /\ out = <<97>> \o ErrorMsg
  /\ stack_top = 1 /\ stack[1] = PLUS

(***************************************************************************)
(* C7 (as claimed): a walk that ends on an input with an open bracket left *)
(* unmatched (no invalid character, no unmatched close bracket) ends with  *)
(* an error, not with the return of handle_end.                            *)
(***************************************************************************)
HasUnmatchedOpen(s) ==
  OnlyRecognised(s) /\ NoUnmatchedClose(s) /\ DepthAt(s, Len(s)) > 0

C7_UnmatchedOpenIsError ==
  (Terminated /\ HasUnmatchedOpen(Body)) => pc # "done"

(***************************************************************************)
(* C8 (as claimed): the stack top never moves below the stack bottom, and  *)
(* a walk that ends on an input with an unmatched close bracket ends with  *)
(* an error.                                                               *)
(***************************************************************************)
C8_FloorIsKept ==
  /\ stack_top >= 0
  /\ (Terminated /\ OnlyRecognised(Body) /\ ~NoUnmatchedClose(Body)) => pc = "error"

(***************************************************************************)
(* C9 (as claimed): no push moves the stack top to an index at or beyond   *)
(* the capacity of the buffer.                                             *)
(***************************************************************************)
C9_PushWithinCapacity == stack_top < MAX_STACK_DEPTH

(***************************************************************************)
(* C10: for the character convert classifies, whatever value a char can    *)
(* have, at most one of the eight interval checks matches; call_index is   *)
(* an index of call_table and selects the handler of the character's       *)
(* category, and is 0 exactly when no check matches; every handler that    *)
(* ran was that of its character's category; and check_interval, on that   *)
(* character and each interval the program uses, is 1 exactly when the     *)
(* character lies in the interval.                                         *)
(***************************************************************************)
HandlerOf(c) ==
  CASE c = NUL           -> "handle_end"
    [] c \in Letters     -> "handle_symbol"
    [] c \in AddOps      -> "handle_add_sub"
    [] c \in MulOps      -> "handle_mul_div"
    [] c = OPEN          -> "handle_open_bracket"
    [] c = CLOSE         -> "handle_close_bracket"
    [] OTHER             -> "handle_error"

ProgramIntervals ==
  {<<NUL, NUL>>, <<LOWER_A, LOWER_Z>>, <<PLUS, PLUS>>, <<MINUS, MINUS>>,
   <<STAR, STAR>>, <<SLASH, SLASH>>, <<OPEN, OPEN>>, <<CLOSE, CLOSE>>,
   <<1, ASCII_MAX>>}

C10_ClassifierTotal ==
  /\ \A p \in 1..Len(hist) : hist[p].handler = HandlerOf(str[p])
  /\ pc = "call" =>
       LET c      == str[pos]
           checks == IntervalChecks(c)
       IN  /\ c \in CharValues
           /\ Cardinality({i \in 1..Len(checks) : checks[i] # 0}) <= 1
           /\ call_index \in 0..6
           /\ call_index = convert_index(c)
           /\ call_table[call_index] = HandlerOf(c)
           /\ call_index = HANDLE_ERROR <=> \A i \in 1..Len(checks) : checks[i] = 0
           /\ \A iv \in ProgramIntervals :
                check_interval(c, iv[1], iv[2])
                  = IF iv[1] <= c /\ c <= iv[2] THEN 1 ELSE 0

\* a negative character was classified as invalid
C10_Witness ==
  /\ pc = "error"
  /\ str[pos] = CHAR_MIN
  /\ call_index = HANDLE_ERROR
  /\ hist[pos].handler = "handle_error"

(***************************************************************************)
(* C11 (as claimed): when two calls of convert on well-formed expressions  *)
(* take turns between handlers and both have ended, each has written what  *)
(* it writes when it runs alone, the postfix form of its expression and a  *)
(* newline, and each has ended in handle_end.                              *)
(***************************************************************************)
AloneOutput(s) == Postfix(SubSeq(s, 1, Len(s) - 1)) \o <<NEWLINE>>

C11_ConversionsIndependent ==
  (/\ pc \in {"done", "error", "crashed"}
   /\ other.pc \in {"done", "error", "crashed"}
   /\ IsWellFormed(Body)
   /\ IsWellFormed(SubSeq(other.str, 1, Len(other.str) - 1))) =>
    /\ pc = "done" /\ out = AloneOutput(str)
    /\ other.pc = "done" /\ other.out = AloneOutput(other.str)

(***************************************************************************)
(* The scopes of a stack l (a function on 0..top): a scope is the entries  *)
(* above one sentinel up to the next sentinel or the top.                  *)
(***************************************************************************)
Sentinels(l) == {z \in DOMAIN l : l[z] = 0}

ScopeEnd(l, z) ==
  LET above == {y \in Sentinels(l) : y > z}
  IN  IF above = {} THEN CHOOSE t \in DOMAIN l : \A i \in DOMAIN l : i <= t
      ELSE (CHOOSE y \in above : \A x \in above : y <= x) - 1

Scope(l, z) == [k \in 1..(ScopeEnd(l, z) - z) |-> l[z + k]]

ScopeInvariant(l) ==
  /\ 0 \in DOMAIN l /\ l[0] = 0
  /\ \A z \in Sentinels(l) :
       LET sc == Scope(l, z)
       IN  /\ Len(sc) <= 2
           /\ \A k \in 1..Len(sc) : sc[k] \in Operators
           /\ Len(sc) = 2 => sc[1] \in AddOps /\ sc[2] \in MulOps

\* The stack top has been at or above the floor and below the capacity
\* before every handler that ran, and is now.
TopStayedInRange ==
  /\ stack_top \in 0..(MAX_STACK_DEPTH - 1)
  /\ \A p \in 1..Len(hist) : hist[p].top \in 0..(MAX_STACK_DEPTH - 1)

(***************************************************************************)
(* C12: while any string of letters, operators and brackets is walked,     *)
(* well-formed or not, and the stack top has stayed between the floor and  *)
(* the capacity, the floor is a sentinel and each scope of the stack holds *)
(* at most two operators; if it holds two, the lower is additive and the   *)
(* upper is multiplicative.                                                *)
(***************************************************************************)
C12_ScopeInvariant ==
  (OnlyRecognised(Body) /\ TopStayedInRange) => ScopeInvariant(Live)

\* +* inside a bracket that follows a pending + : two scopes, the upper
\* holding + below *
C12_Witness ==
  /\ pc = "call"
  /\ Handled = <<PLUS, OPEN, PLUS, STAR>>
  /\ stack_top = 4
  /\ stack[1] = PLUS /\ stack[2] = 0 /\ stack[3] = PLUS /\ stack[4] = STAR
  /\ Scope(Live, 2) = <<PLUS, STAR>>

(***************************************************************************)
(* C13: when handle_end has finished on an input of letters, operators and *)
(* balanced brackets, the stack top is the stack bottom, the floor         *)
(* sentinel is in place and nothing was written outside the buffer.        *)
(***************************************************************************)
C13_DrainedAtEnd ==
  (pc = "done" /\ OnlyRecognised(Body) /\ Balanced(Body)) =>
    /\ stack_top = 0
    /\ stack[0] = 0
    /\ outside = <<>>

\* (a+b*c) ends with + and * written by the close bracket, a*b+c with +
\* written by handle_end
C13_Witness ==
  /\ pc = "done"
  /\ Body = <<97, STAR, 98, PLUS, 99>>
  /\ hist[Len(hist)].handler = "handle_end"
  /\ hist[Len(hist)].top = 1
  /\ stack_top = 0
  /\ out = <<97, 98, STAR, 99, PLUS, NEWLINE>>

\* The record of the handler that ran last, and what has been written since
\* it was called.
LastCall == hist[Len(hist)]

Emitted == SubSeq(out, LastCall.outlen + 1, Len(out))

\* The n entries of the stack l from its top t downwards.
TopDown(l, t, n) == [k \in 1..n |-> l[t - k + 1]]

\* The highest sentinel of the stack l.
TopSentinel(l) == CHOOSE z \in Sentinels(l) : \A y \in Sentinels(l) : y <= z

(***************************************************************************)
(* C14: when a close bracket that has a matching open bracket is handled   *)
(* on a stack that satisfies the scope invariant, the highest sentinel is  *)
(* the one that open bracket pushed, at most two entries lie above it and  *)
(* are written top first, the handler leaves the stack top one below that  *)
(* sentinel, and the stack is then what it was before the open bracket was *)
(* handled.                                                                *)
(***************************************************************************)
C14_CloseRestoresStack ==
  (/\ JustClosed
   /\ OnlyRecognised(Body)
   /\ NoUnmatchedClose(Handled)
   /\ ScopeInvariant(LastCall.live)) =>
    LET q      == Len(hist)
        opened == hist[MatchOf(str, q)]
        z      == opened.top + 1
    IN  /\ TopSentinel(LastCall.live) = z
        /\ LastCall.top - z <= 2
        /\ Emitted = TopDown(LastCall.live, LastCall.top, LastCall.top - z)
        /\ stack_top = z - 1
        /\ Live = opened.live

\* +(*) : * above the sentinel is written, + below it is the stack again
C14_Witness ==
  /\ JustClosed
  /\ Handled = <<PLUS, OPEN, STAR, CLOSE>>
  /\ LastCall.top = 3
  /\ LastCall.live[2] = 0
  /\ Emitted = <<STAR>>
  /\ stack_top = 1 /\ stack[1] = PLUS

(***************************************************************************)
(* C15: pop on a stack whose top is a sentinel returns 0 and changes       *)
(* nothing, and so does a second pop; pop on a stack whose top is an       *)
(* operator returns it and lowers the top by one.  So after a handler that *)
(* pops twice (handle_add_sub, handle_close_bracket, handle_end) the       *)
(* entries up to the highest sentinel are what they were, the top is not   *)
(* below that sentinel by more than the one entry handle_close_bracket     *)
(* removes, and what was written is the entries that lay above the         *)
(* sentinel, at most two, top first.                                       *)
(***************************************************************************)
PopsTwice == {"handle_add_sub", "handle_close_bracket", "handle_end"}

C15_PopStopsAtSentinel ==
  /\ (pc = "call" /\ Cell(Machine, stack_top) # Uninit) =>
       LET c == Cell(Machine, stack_top)
           r == pop(Machine, c)
       IN  /\ c = 0 => r.c = 0 /\ r.m = Machine /\ pop(r.m, c) = r
           /\ c \in Operators => r.c = c /\ r.m = [Machine EXCEPT !.top = @ - 1]
  /\ (/\ hist # <<>>
      /\ LastCall.handler \in PopsTwice
      /\ Sentinels(LastCall.live) # {}) =>
       LET z       == TopSentinel(LastCall.live)
           above   == LastCall.top - z
           flushed == IF above < 2 THEN above ELSE 2
           written == TopDown(LastCall.live, LastCall.top, flushed)
       IN  /\ \A i \in 0..z : Cell(Machine, i) = LastCall.live[i]
           /\ stack_top >= z - (IF LastCall.handler = "handle_close_bracket"
                                THEN 1 ELSE 0)
           /\ Emitted = IF LastCall.handler = "handle_end"
                        THEN written \o <<NEWLINE>> ELSE written

\* +(*+ : the second + writes * and stops at the sentinel, the first +
\* stays below it
C15_Witness ==
  /\ pc = "call"
  /\ Handled = <<PLUS, OPEN, STAR, PLUS>>
  /\ LastCall.handler = "handle_add_sub"
  /\ TopSentinel(LastCall.live) = 2
  /\ Emitted = <<STAR>>
  /\ stack_top = 3 /\ stack[1] = PLUS /\ stack[2] = 0 /\ stack[3] = PLUS

(***************************************************************************)
(* C16: pop_mul_div on a stack whose top is a multiplicative operator      *)
(* returns it and lowers the top by one; on any other top it returns 0 and *)
(* changes nothing.  So after handle_mul_div what was written is the old   *)
(* top if that was multiplicative and nothing otherwise, every entry below *)
(* the old top is what it was, and every additive operator that was on the *)
(* stack is still on it.                                                   *)
(***************************************************************************)
C16_PopMulDivFrame ==
  /\ (pc = "call" /\ Cell(Machine, stack_top) # Uninit) =>
       LET c == Cell(Machine, stack_top)
           r == pop_mul_div(Machine, c)
       IN  IF c \in MulOps
           THEN r.c = c /\ r.m = [Machine EXCEPT !.top = @ - 1]
           ELSE r.c = 0 /\ r.m = Machine
  /\ (/\ hist # <<>>
      /\ LastCall.handler = "handle_mul_div"
      /\ LastCall.top >= 0) =>
       LET t == LastCall.live[LastCall.top]
       IN  /\ Emitted = IF t \in MulOps THEN <<t>> ELSE <<>>
           /\ stack_top = LastCall.top + (IF t \in MulOps THEN 0 ELSE 1)
           /\ \A i \in 0..(LastCall.top - 1) : Cell(Machine, i) = LastCall.live[i]
           /\ \A i \in 0..LastCall.top :
                LastCall.live[i] \in AddOps =>
                  i <= stack_top /\ Cell(Machine, i) = LastCall.live[i]

\* +** : the second * writes the first and leaves + where it was
C16_Witness ==
  /\ pc = "call"
  /\ Handled = <<PLUS, STAR, STAR>>
  /\ LastCall.handler = "handle_mul_div"
  /\ Emitted = <<STAR>>
  /\ stack_top = 2 /\ stack[1] = PLUS /\ stack[2] = STAR

(***************************************************************************)
(* C17 (as claimed): the handlers are called on the positions of the input *)
(* in order, each position once, at most once per character and once for   *)
(* the terminator; and a walk that has ended has ended either in           *)
(* handle_end at the terminator or in handle_error at the first character  *)
(* that is not recognised.                                                 *)
(***************************************************************************)
C17_LinearPass ==
  /\ \A p \in 1..Len(hist) : hist[p].pos = p
  /\ Len(hist) <= Len(str)
  /\ pc = "call" => pos = Len(hist) + 1
  /\ pc # "call" =>
       /\ pos = Len(hist)
       /\ \/ /\ pc = "done"
             /\ LastCall.handler = "handle_end"
             /\ pos = Len(str)
          \/ /\ pc = "error"
             /\ LastCall.handler = "handle_error"
             /\ str[pos] \notin Recognised \cup {NUL}
             /\ \A i \in 1..(pos - 1) : str[i] \in Recognised

(***************************************************************************)
(* C18 (as claimed): print_symbol writes its argument exactly when it is   *)
(* in 1..127, and while a string of letters, operators and brackets is     *)
(* walked every character of the postfix output (the output without the    *)
(* newline of handle_end) is a lowercase letter or an operator.            *)
(***************************************************************************)
PrintSamples == {CHAR_MIN, -1, NUL, 1, OPEN, CLOSE, ASCII_MAX}

PostfixOutput == IF pc = "done" THEN AllButLast(out) ELSE out

C18_OutputAlphabet ==
  /\ \A c \in PrintSamples \cup {str[pos]} :
       print_symbol(Machine, c).out
         = IF 1 <= c /\ c <= ASCII_MAX THEN Append(out, c) ELSE out
  /\ OnlyRecognised(Body) =>
       \A i \in 1..Len(PostfixOutput) : PostfixOutput[i] \in Letters \cup Operators

(***************************************************************************)
(* C19: while a string of letters, operators and brackets is walked and no *)
(* close bracket handled so far was unmatched, the stack top is at most    *)
(* 3 * d + 2, d being the number of brackets open now; and as long as no   *)
(* more than 20 brackets were open at a time, every push has written       *)
(* inside the buffer.  (With 21 open brackets a push writes index 64: the  *)
(* witness.)                                                               *)
(***************************************************************************)
OpenNow == DepthAt(str, Len(hist))

\* The largest number of brackets open at a time in the first n characters
\* of s, from depth open after the first i - 1 and the largest so far.
RECURSIVE DeepestFrom(_, _, _, _, _)
DeepestFrom(s, n, i, depth, deepest) ==
  IF i > n THEN deepest
  ELSE LET d == depth + (IF s[i] = OPEN THEN 1 ELSE IF s[i] = CLOSE THEN -1 ELSE 0)
       IN  DeepestFrom(s, n, i + 1, d, IF d > deepest THEN d ELSE deepest)

DeepestSoFar == DeepestFrom(str, Len(hist), 1, 0, 0)

C19_HeightBound ==
  (OnlyRecognised(Body) /\ NoUnmatchedClose(Handled)) =>
    /\ stack_top <= 3 * OpenNow + 2
    /\ DeepestSoFar <= 20 =>
         /\ stack_top < MAX_STACK_DEPTH
         /\ outside = <<>>
         /\ pc # "crashed"

\* +*( 21 times and then + : the 64 entries +*0 ... +*0 + above the floor,
\* the last of them past the end of the buffer
C19_Witness ==
  /\ pc = "call"
  /\ Handled = Repeat(DeepUnit, 21) \o <<PLUS>>
  /\ OpenNow = 21
  /\ stack_top = MAX_STACK_DEPTH
  /\ stack[MAX_STACK_DEPTH - 1] = 0
  /\ outside = (MAX_STACK_DEPTH :> PLUS)

(***************************************************************************)
(* C20: while a string of letters, operators and balanced brackets is      *)
(* walked, sensible or not, each operator occurs in the output and on the  *)
(* stack together as often as it was read so far; and when handle_end has  *)
(* finished the output before the newline holds letters and operators      *)
(* only, each as often as the input holds it.                              *)
(***************************************************************************)
Count(s, c) == Len(SelectSeq(s, LAMBDA x : x = c))

\* The entries above the floor.
Pending == [k \in 1..stack_top |-> Cell(Machine, k)]

C20_OperatorConservation ==
  (OnlyRecognised(Body) /\ Balanced(Body)) =>
    /\ \A c \in Operators :
         Count(PostfixOutput, c) + Count(Pending, c) = Count(Handled, c)
    /\ pc = "done" =>
         /\ \A i \in 1..Len(PostfixOutput) :
              PostfixOutput[i] \in Letters \cup Operators
         /\ \A c \in Letters \cup Operators :
              Count(PostfixOutput, c) = Count(Body, c)

\* (+*) is no expression; * and + are each written once, by the close
\* bracket
C20_Witness ==
  /\ pc = "done"
  /\ Body = <<OPEN, PLUS, STAR, CLOSE>>
  /\ out = <<STAR, PLUS, NEWLINE>>
  /\ stack_top = 0

====
